---- MODULE Spec2Model ----
(***************************************************************************)
(* A model of mo_hg/hg_mozilla_org.py: HgMozillaOrg, the read-through     *)
(* cache of hg.mozilla.org revisions in Elasticsearch, its todo queue and *)
(* the daemon that drains it, and the cross-branch search.                *)
(*                                                                         *)
(* Threads take the steps of get_revision one shared-state access at a    *)
(* time.  The hosting service, the network and the Elasticsearch cluster  *)
(* are the environment: every request draws its outcome from the outcomes *)
(* the code distinguishes.                                                 *)
(***************************************************************************)
EXTENDS Integers, Sequences, FiniteSets, TLC

(***************************************************************************)
(* Program constants                                                       *)
(***************************************************************************)
DEFAULT_LOCALE == "en-US"
\* a daemon that scans the tasks of every branch
ScanEverything == {}

DAEMON_DO_NO_SCAN == {"try"}
\* durations are counted in hours
HOUR == 1
DAY == 24
MAX_TODO_AGE == DAY
\* range(3) of the index search loop
ES_ATTEMPTS == 3
\* range(3) of the worker threads of _find_revision
FIND_THREADS == 3
LANDING_BRANCHES == {"try", "mozilla-inbound", "autoland"}

(***************************************************************************)
(* Bounds of the model                                                     *)
(***************************************************************************)
\* incidents of one run in which the environment fails a request: a search
\* or a write the index rejects, a fetch the network or the hosting service
\* does not answer well.  The retries of one index search (line 194) are one
\* incident.
MaxFaults == 1

(***************************************************************************)
(* Values                                                                  *)
(***************************************************************************)
\* Python None / mo_dots Null in a string slot
NoValue == "<null>"
\* Null in a record slot (the null revision, a missing push)
Null == [kind |-> "null"]

Min(a, b) == IF a < b THEN a ELSE b

SeqToSet(s) == {s[i] : i \in 1..Len(s)}

\* coalesce(a, b, c): the first argument that is not None
coalesce(a, b, c) == IF a # NoValue THEN a ELSE IF b # NoValue THEN b ELSE c

\* the full hashes of the hosting service and their 12 character prefixes
Prefix12 ==
  [n \in {"r1-full", "r2-full", "t1-full"} |->
     CASE n = "r1-full" -> "r1" [] n = "r2-full" -> "r2" [] n = "t1-full" -> "t1"]

\* id[0:12]: a string of at most 12 characters is its own prefix
Id12(id) == IF id \in DOMAIN Prefix12 THEN Prefix12[id] ELSE id

\* str.lower() on the branch names of the model
lower(name) == IF name = "Mozilla-Central" THEN "mozilla-central" ELSE name

(***************************************************************************)
(* URLs.  A URL is the list url.split("/") gives: <<"https:", "", host,   *)
(* segment, ..., endpoint>>.  Every piece is a tuple: <<segment>>, or     *)
(* <<endpoint, argument>> for "json-pushes?full=1&changeset=<id>" and     *)
(* "json-info?node=<id12>".                                                *)
(***************************************************************************)
P(s) == <<s>>
PUSHES == "json-pushes?full=1&changeset="
INFO == "json-info?node="
HOST == "hg.mozilla.org"

HgUrl(segments) ==
  <<P("https:"), P(""), P(HOST)>> \o [i \in 1..Len(segments) |-> P(segments[i])]

\* url.rstrip("/"): drop the empty pieces a trailing "/" leaves
RECURSIVE rstrip(_)
rstrip(url) ==
  IF Len(url) > 0 /\ url[Len(url)] = P("")
  THEN rstrip(SubSeq(url, 1, Len(url) - 1))
  ELSE url

IsEndpoint(piece) == Len(piece) = 2 /\ piece[1] \in {PUSHES, INFO}

\* a _trim that leaves the endpoint on the url
Untrimmed(url) == url

\* url.split("/json-pushes?")[0].split("/json-info?")[0]
_trim(url) ==
  LET cut == {i \in 1..Len(url) : IsEndpoint(url[i])}
  IN IF cut = {} THEN url
     ELSE SubSeq(url, 1, (CHOOSE i \in cut : \A j \in cut : i <= j) - 1)

\* url.replace("https://", "http://")
Downgrade(url) ==
  IF Len(url) >= 2 /\ url[1] = P("https:") /\ url[2] = P("")
  THEN <<P("http:")>> \o Tail(url)
  ELSE url

\* Python path[i] (0-based) and path[a:b], path[a:]
At(path, i) == path[i + 1]
Slice(path, a, b) == SubSeq(path, a + 1, Min(b, Len(path)))
From(path, a) == SubSeq(path, a + 1, Len(path))

(***************************************************************************)
(* The branch catalog (self.branches), keyed by (lower name, locale)      *)
(***************************************************************************)
BranchKeys ==
  { <<"mozilla-central", "en-US">>, <<"try", "en-US">>,
    <<"mozilla-inbound", "en-US">>, <<"autoland", "en-US">>,
    <<"mozilla-central", "de">> }

CatalogUrl(k) ==
  CASE k[1] = "mozilla-central" /\ k[2] = "de" -> HgUrl(<<"l10n-central", "de">>)
    [] k[1] = "mozilla-central" /\ k[2] # "de" -> HgUrl(<<"mozilla-central", "">>)
    [] k[1] = "try"             -> HgUrl(<<"try">>)
    [] k[1] = "mozilla-inbound" -> HgUrl(<<"integration", "mozilla-inbound">>)
    [] k[1] = "autoland"        -> HgUrl(<<"integration", "autoland">>)

(***************************************************************************)
(* The hosting service: repositories, their changesets and pushes         *)
(***************************************************************************)
\* the clock of the process (hours), a push older than MAX_TODO_AGE and a
\* push younger than it
Now0 == 4 * DAY
OldDate == Now0 - 2 * DAY
RecentDate == Now0 - 10 * HOUR

HgNodes == {"r1-full", "r2-full", "t1-full"}

HgInfo(n) ==
  CASE n = "r1-full" ->
         [rev |-> 1, node |-> n, files |-> <<"a.txt">>, parents |-> <<>>,
          children |-> <<"r2-full">>, push |-> [id |-> 1, date |-> OldDate]]
    [] n = "r2-full" ->
         [rev |-> 2, node |-> n, files |-> <<>>, parents |-> <<"r1-full">>,
          children |-> <<>>, push |-> [id |-> 2, date |-> RecentDate]]
    [] n = "t1-full" ->
         [rev |-> 7, node |-> n, files |-> <<"b.txt">>, parents |-> <<>>,
          children |-> <<>>, push |-> [id |-> 3, date |-> RecentDate]]

RepoNodes(repo) ==
  CASE repo = <<"mozilla-central">> -> {"r1-full", "r2-full"}
    [] repo = <<"try">> -> {"t1-full"}
    [] repo = <<"integration", "mozilla-inbound">> -> {}
    [] repo = <<"integration", "autoland">> -> {}
    [] repo = <<"releases", "mozilla-aurora">> -> {"r1-full"}
    [] repo = <<"releases", "mozilla-beta">> -> {"r1-full"}
    [] repo = <<"releases", "mozilla-release">> -> {"r1-full"}
    [] OTHER -> {}

HgRepos ==
  { <<"mozilla-central">>, <<"try">>, <<"integration", "mozilla-inbound">>,
    <<"integration", "autoland">>, <<"releases", "mozilla-aurora">>,
    <<"releases", "mozilla-beta">>, <<"releases", "mozilla-release">> }

\* the changesets of a repository an id (full hash or prefix) names
Named(repo, id) == {n \in RepoNodes(repo) : n = id \/ Id12(n) = id}

\* what the network lets through in one call, and what the push-log answers
AllUp == {"https:", "http:"}
Nets == { AllUp, {"http:"}, {} }
PushModes == {"one", "zero", "two"}

\* the body the service sends for a URL
Serve(url, mode) ==
  IF Len(url) < 4 \/ ~IsEndpoint(url[Len(url)])
     \/ \E i \in 4..(Len(url) - 1) : Len(url[i]) # 1
  THEN [kind |-> "garbage"]
  ELSE LET repo == [i \in 1..(Len(url) - 4) |-> url[i + 3][1]]
           ep == url[Len(url)]
           ns == Named(repo, ep[2])
       IN IF repo \notin HgRepos THEN [kind |-> "garbage"]
          ELSE IF ns = {} THEN [kind |-> "unknown revision"]
          ELSE LET n == CHOOSE x \in ns : TRUE
               IN IF ep[1] = INFO
                  THEN [kind |-> "info", revs |-> {HgInfo(n)}]
                  ELSE [kind |-> "pushes",
                        pushes |->
                          CASE mode = "one" ->
                                 {[id |-> HgInfo(n).push.id, date |-> HgInfo(n).push.date,
                                   changesets |-> {m \in RepoNodes(repo) :
                                                     HgInfo(m).push.id = HgInfo(n).push.id}]}
                            [] mode = "zero" -> {}
                            [] mode = "two" ->
                                 {[id |-> HgInfo(n).push.id, date |-> HgInfo(n).push.date,
                                   changesets |-> {n}],
                                  [id |-> HgInfo(n).push.id + 100, date |-> HgInfo(n).push.date,
                                   changesets |-> {n}]}]


(***************************************************************************)
(* _get_url and _get_and_retry.  A result is                               *)
(*   [ok, error, cause, data, url, tried]: url is the value _get_url      *)
(* leaves in branch.url on success, tried the URLs requested, in order,   *)
(* cause the errors a raised error is chained to.                         *)
(***************************************************************************)
Failed(error, cause, tried) ==
  [ok |-> FALSE, error |-> error, cause |-> cause, data |-> [kind |-> "none"], url |-> <<>>,
   tried |-> tried]

_get_url(url, net, mode) ==
  LET body == Serve(url, mode)
  IN IF Len(url) = 0 \/ url[1][1] \notin net THEN Failed("transport", <<>>, <<url>>)
     ELSE IF body.kind = "garbage" THEN Failed("not json", <<>>, <<url>>)
     ELSE IF body.kind = "unknown revision" THEN Failed("Unknown push", <<>>, <<url>>)
     ELSE [ok |-> TRUE, error |-> "", cause |-> <<>>, data |-> body, url |-> _trim(url),
           tried |-> <<url>>]

\* the rules with the autoland test first
AutolandFirst(path) ==
  IF Len(path) < 4 THEN "IndexError"
  ELSE IF Len(path) > 5 /\ At(path, 4) = P("autoland") THEN "autoland"
  ELSE IF At(path, 3) = P("l10n-central") THEN "l10n-central"
  ELSE IF Len(path) > 5 /\ At(path, 5) = P("mozilla-aurora") THEN "mozilla-aurora"
  ELSE IF Len(path) > 5 /\ At(path, 5) = P("mozilla-beta") THEN "mozilla-beta"
  ELSE IF Len(path) > 7 /\ At(path, 5) = P("mozilla-release") THEN "mozilla-release"
  ELSE "none"

\* the alias rule of lines 317-342 that matches the split URL, if any
RewriteRule(path) ==
  IF Len(path) < 4 THEN "IndexError"
  ELSE IF At(path, 3) = P("l10n-central") THEN "l10n-central"
  ELSE IF Len(path) > 5 /\ At(path, 5) = P("mozilla-aurora") THEN "mozilla-aurora"
  ELSE IF Len(path) > 5 /\ At(path, 5) = P("mozilla-beta") THEN "mozilla-beta"
  ELSE IF Len(path) > 7 /\ At(path, 5) = P("mozilla-release") THEN "mozilla-release"
  ELSE IF Len(path) > 5 /\ At(path, 4) = P("autoland") THEN "autoland"
  ELSE "none"

\* a rewrite that renames the directories of the path and drops none
Renamed(path) ==
  [i \in 1..Len(path) |-> IF 3 < i /\ i < Len(path) THEN P("renamed") ELSE path[i]]

Rewrite(path) ==
  LET rule == RewriteRule(path)
  IN CASE rule = "l10n-central" -> Slice(path, 0, 3) \o <<P("mozilla-central")>> \o From(path, 5)
       [] rule = "mozilla-aurora" -> Slice(path, 0, 4) \o <<P("mozilla-aurora")>> \o From(path, 7)
       [] rule = "mozilla-beta" -> Slice(path, 0, 4) \o <<P("mozilla-beta")>> \o From(path, 7)
       [] rule = "mozilla-release" -> Slice(path, 0, 4) \o <<P("mozilla-release")>> \o From(path, 7)
       [] rule = "autoland" -> Slice(path, 0, 3) \o <<P("try")>> \o From(path, 5)
       [] OTHER -> path

\* a fetch that gives up after the first attempt
HttpsOnly(url, net, mode) == _get_url(url, net, mode)

RECURSIVE _get_and_retry(_, _, _)
_get_and_retry(url, net, mode) ==
  LET e == _get_url(url, net, mode)
      f == _get_url(Downgrade(url), net, mode)
      both == <<url, Downgrade(url)>>
      rule == RewriteRule(url)
  IN IF e.ok THEN e
     ELSE IF f.ok THEN [f EXCEPT !.tried = both]
     ELSE IF rule = "IndexError" THEN Failed("IndexError", <<>>, both)
     ELSE IF rule = "none" THEN Failed("Both failed", <<e.error, f.error>>, both)
     ELSE LET r == _get_and_retry(Rewrite(url), net, mode)
          IN [r EXCEPT !.tried = both \o r.tried]


(***************************************************************************)
(* Revisions                                                               *)
(***************************************************************************)
\* mo_dots.unwraplist and listwrap
unwraplist(l) ==
  IF Len(l) = 0 THEN [u |-> "none"]
  ELSE IF Len(l) = 1 THEN [u |-> "one", v |-> <<l[1]>>]
  ELSE [u |-> "list", v |-> l]

listwrap(x) == IF x.u = "none" THEN <<>> ELSE x.v

\* the unified diff of a changeset parsed by diff_to_json, one entry a file
HgDiff(node) == [i \in 1..Len(HgInfo(node).files) |-> [file |-> HgInfo(node).files[i], changes |-> TRUE]]

\* [{"new": f, "old": f} for f in revision.changeset.files]
FilesDiff(files) == [i \in 1..Len(files) |-> [file |-> files[i], changes |-> FALSE]]

Push(id, date) == [kind |-> "push", id |-> id, date |-> date]

\* the Revision(...) of _normalize_revision, lines 274-293
Revision(r, bkey, burl, push, diff, clock) ==
  [kind |-> "rev",
   branch |-> [name |-> bkey[1], locale |-> bkey[2], url |-> burl],
   index |-> r.rev,
   changeset |-> [id |-> r.node, id12 |-> Id12(r.node), files |-> r.files, diff |-> diff],
   parents |-> unwraplist(r.parents),
   children |-> unwraplist(r.children),
   push |-> push,
   etl |-> [timestamp |-> clock]]

\* _id of line 295
DocId(rev) == <<rev.changeset.id12, rev.branch.name, coalesce(rev.branch.locale, NoValue, DEFAULT_LOCALE)>>

\* d._id.endswith(locale)
EndsWith(id, locale) == Len(id) = 3 /\ id[3] = locale

\* a document an earlier run of the process left in the index
StoredDoc(node, bkey, withDiff) ==
  Revision(HgInfo(node), bkey, rstrip(CatalogUrl(bkey)),
           Push(HgInfo(node).push.id, HgInfo(node).push.date),
           IF withDiff THEN HgDiff(node) ELSE <<>>, Now0 - DAY)

MC == <<"mozilla-central", "en-US">>

\* the indexes the process may start with
InitIndexes ==
  LET one(node, withDiff) ==
        LET d == StoredDoc(node, MC, withDiff) IN (DocId(d) :> d)
  IN { <<>>, one("r1-full", FALSE), one("r1-full", TRUE) @@ one("r2-full", FALSE) }

(***************************************************************************)
(* Threads and requests                                                    *)
(***************************************************************************)
Callers == {"c1", "c2"}
DaemonThread == "daemon"
Finder == "finder"
\* lines 370-371: the threads "find changeset i"
WorkerName == <<"w1", "w2", "w3">>
Workers == {WorkerName[i] : i \in 1..FIND_THREADS}
WorkerNo(w) == CHOOSE i \in 1..FIND_THREADS : WorkerName[i] = w
Threads == Callers \cup {DaemonThread, Finder} \cup Workers

\* the incomplete revisions callers ask for: branch name, branch locale,
\* changeset id, and the locale argument
Request(bname, bloc, id, larg) == [bname |-> bname, bloc |-> bloc, id |-> id, larg |-> larg]

Requests ==
  { Request("mozilla-central", "en-US", "r1", NoValue),
    Request("mozilla-central", NoValue, "r2-full", NoValue),
    Request("mozilla-central", "en-US", "zz", NoValue),
    Request("mozilla-central", "en-US", "", NoValue),
    Request("mozilla-central", "en-US", "None", NoValue),
    Request(NoValue, NoValue, "r1", NoValue),
    Request("no-such-branch", NoValue, "r1", NoValue) }

\* requests with a locale argument: a locale of the catalog, a locale the
\* catalog has no branch for, and a branch name in capitals
LocaleRequests ==
  { Request("mozilla-central", NoValue, "r1", NoValue),
    Request("mozilla-central", NoValue, "r1", "de"),
    Request("mozilla-central", NoValue, "r1", "fr"),
    Request("Mozilla-Central", "fr", "r2", NoValue),
    Request("no-such-branch", NoValue, "r1", "fr") }

\* the requests made twice
TwiceRequests ==
  { Request("mozilla-central", NoValue, "r2", NoValue),
    Request("mozilla-central", NoValue, "r2", "fr") }

\* the revision ids _find_revision is asked for
FindIds == {"zz", "r1-full", "t1-full"}

\* what one call of get_revision has done so far: index searches, fetches
\* from the hosting service, index writes, tasks added to todo, push-log
\* responses received and the push entries in them
NoStats == [search |-> 0, fetch |-> 0, write |-> 0, enq |-> 0, answered |-> 0, pushes |-> 0]

Frame0 ==
  [pc |-> "idle", req |-> Request(NoValue, NoValue, NoValue, NoValue), locale |-> NoValue,
   attempt |-> 0, bkey |-> <<>>, url |-> <<>>, push |-> Null, raw |-> Null, rev |-> Null,
   n |-> NoStats]

\* an exception as a caller receives it: the errors it is chained to
\* no function is called on its own in this run
NoFetch == [pc |-> "none"]

Raised(cause) == [kind |-> "raised", cause |-> cause]

NoResult == [kind |-> "none", value |-> Null, via |-> "", req |-> Frame0.req, n |-> NoStats]

VARIABLES
  now,        \* Date.now()
  index,      \* self.es: document id -> document
  cache,      \* the memo and the keys in flight of each @cache method
  todo,       \* self.todo
  branchUrl,  \* url of each branch object of self.branches
  esLock,     \* holder of self.es_locker
  th,         \* each thread's position in get_revision and its locals
  ret,        \* what each caller's get_revision returned or raised
  calls,      \* external calls each thread may still make
  asked,      \* the incomplete revision the callers of this run ask for
  faults,     \* failures the environment may still produce in this run
  dm,         \* locals of _daemon
  fnd,        \* locals of _find_revision, and the branches its workers took
  ghost,      \* history: the index at the start, the fetches made and succeeded
              \* by branch and endpoint
  fx          \* one call of a function on its own: the arguments, the outcome
              \* and the object the call changes

vars == <<now, index, cache, todo, branchUrl, esLock, th, ret, calls, asked, faults, dm, fnd, ghost,
          fx>>

(***************************************************************************)
(* pyLibrary.meta.cache(duration=HOUR, lock=True): a value memoized for a *)
(* key is returned until it expires; a key being computed is in `busy`    *)
(* and a second caller of that key waits; a failure is not memoized.      *)
(***************************************************************************)
EmptyCache == [memo |-> <<>>, busy |-> {}]

Upd(f, k, v) == IF k \in DOMAIN f THEN [f EXCEPT ![k] = v] ELSE f @@ (k :> v)

Memoized(c, k) == k \in DOMAIN c.memo /\ now < c.memo[k].timeout

Take(c, k) == [c EXCEPT !.busy = @ \cup {k}]

Release(c, k) == [c EXCEPT !.busy = @ \ {k}]

Put(c, k, v) ==
  [memo |-> Upd(c.memo, k, [timeout |-> now + HOUR, value |-> v]), busy |-> c.busy \ {k}]

RevKey(req) == <<req.bname, req.bloc, req.id, req.larg>>

\* the environment fails `cost` requests of this step
Spend(cost) == faults' = faults - cost

Bump(f, k) == IF k \in DOMAIN f THEN [f EXCEPT ![k] = @ + 1] ELSE f @@ (k :> 1)

Count(f, k) == IF k \in DOMAIN f THEN f[k] ELSE 0

(***************************************************************************)
(* Initial state: the process is constructed with an index, the daemon    *)
(* waits on the empty todo queue.                                          *)
(***************************************************************************)
InitCommon ==
  /\ now = Now0
  /\ cache = [rev |-> EmptyCache, push |-> EmptyCache, raw |-> EmptyCache, find |-> EmptyCache]
  /\ todo = <<>>
  /\ branchUrl = [k \in BranchKeys |-> CatalogUrl(k)]
  /\ esLock = NoValue
  /\ th = [t \in Threads |-> IF t = DaemonThread THEN [Frame0 EXCEPT !.pc = "pop"] ELSE Frame0]
  /\ ret = [t \in Callers |-> NoResult]
  /\ dm = [branch |-> [name |-> NoValue, locale |-> NoValue], revisions |-> {}, tovisit |-> {}]
  /\ fnd = [id |-> NoValue, queue |-> <<>>, taken |-> <<>>, output |-> <<>>, problems |-> 0,
            result |-> <<>>, done |-> FALSE]

Init ==
  /\ InitCommon
  /\ index \in InitIndexes
  /\ ghost = [calls |-> <<>>, oks |-> <<>>, index0 |-> index]
  /\ calls = [t \in Threads |-> IF t \in Callers THEN 1 ELSE 0]
  /\ asked \in Requests
  /\ faults = MaxFaults
  /\ fx = NoFetch


(***************************************************************************)
(* The todo queue.  A task is (branch, revisions); date, at and site are  *)
(* history: the push date of the revision the task comes from, the clock  *)
(* at the enqueue, and the line that enqueued it.                         *)
(***************************************************************************)
Task(branch, revisions, date, site) ==
  [branch |-> [name |-> branch.name, locale |-> branch.locale],
   revisions |-> revisions, date |-> date, at |-> now, site |-> site]

\* lines 148-149 and 176-177
Neighbours(q, output, site) ==
  Append(Append(q, Task(output.branch, SeqToSet(listwrap(output.parents)), output.push.date, site)),
         Task(output.branch, SeqToSet(listwrap(output.children)), output.push.date, site))

Oldest(pushes) == IF pushes = {} THEN Now0 ELSE CHOOSE d \in {p.date : p \in pushes} : \A p \in pushes : d <= p.date

(***************************************************************************)
(* mo_logs.exceptions.Explanation.__exit__: an exception raised inside    *)
(* the block is reported as an error chained to it, so it leaves the      *)
(* block (TRUE) rather than being swallowed.                              *)
(***************************************************************************)
Explanation(raised) == raised

(***************************************************************************)
(* get_revision returns to its caller: an external caller keeps the       *)
(* outcome, the daemon goes on with its task (lines 122-128) or is ended  *)
(* by the exception, a worker of _find_revision appends (lines 363-367).  *)
(***************************************************************************)
\* an append that overwrites what other workers appended
LostAppend(output, rev) == <<rev>>

\* lines 363-364: with locker: output.append(rev)
append(output, rev) == Append(output, rev)

Done(t, kind, value, via, n) ==
  /\ ret' = IF t \in Callers
            THEN [ret EXCEPT ![t] = [kind |-> kind, value |-> value, via |-> via, req |-> th[t].req, n |-> n]]
            ELSE ret
  /\ IF t = DaemonThread
     THEN IF kind = "error" /\ Explanation(TRUE)
          THEN /\ th' = [th EXCEPT ![t] = [Frame0 EXCEPT !.pc = "dead"]]
               /\ UNCHANGED <<dm, fnd>>
          ELSE LET revisions == IF kind = "error" THEN dm.revisions ELSE dm.revisions \ {th[t].req.id}
                   tovisit == dm.tovisit \ {th[t].req.id}
               IN /\ dm' = [dm EXCEPT !.revisions = revisions, !.tovisit = tovisit]
                  /\ th' = [th EXCEPT ![t] = [Frame0 EXCEPT !.pc =
                              IF tovisit # {} THEN "scan" ELSE IF revisions # {} THEN "find" ELSE "pop"]]
                  /\ UNCHANGED fnd
     ELSE IF t \in Workers
     THEN /\ th' = [th EXCEPT ![t] = [Frame0 EXCEPT !.pc = "wnext"]]
          /\ fnd' = IF kind = "error" THEN [fnd EXCEPT !.problems = @ + 1]
                    ELSE [fnd EXCEPT !.output = append(@, value)]
          /\ UNCHANGED dm
     ELSE /\ th' = [th EXCEPT ![t] = Frame0]
          /\ UNCHANGED <<dm, fnd>>

(***************************************************************************)
(* get_revision, lines 130-178                                             *)
(***************************************************************************)
\* lines 136-142 without the test of line 139
EmptyId(req) == req.id = NoValue \/ req.id = "" \/ req.bname = NoValue

\* lines 136-142
NothingToResolve(req) == req.id = NoValue \/ req.id = "" \/ req.id = "None" \/ req.bname = NoValue

\* the calls of a run overlap: a caller calls while no call has come back
CallGetRevision(t) ==
  /\ t \in Callers
  /\ th[t].pc = "idle"
  /\ calls[t] > 0
  /\ \A u \in Callers : ret[u].kind = "none"
  /\ th' = [th EXCEPT ![t] = [Frame0 EXCEPT !.pc = "call", !.req = asked]]
  /\ calls' = [calls EXCEPT ![t] = @ - 1]
  /\ UNCHANGED <<fx, now, index, cache, todo, branchUrl, esLock, ret, asked, faults, dm, fnd, ghost>>

\* get_revision without the lock of @cache: a key in flight does not make a
\* second caller wait
get_revision_unlocked(t) ==
  /\ th[t].pc = "call"
  /\ LET req == th[t].req
     IN IF NothingToResolve(req)
        THEN /\ cache' = [cache EXCEPT !.rev = Put(@, RevKey(req), Null)]
             /\ Done(t, "value", Null, "null", NoStats)
        ELSE /\ cache' = [cache EXCEPT !.rev = Take(@, RevKey(req))]
             /\ th' = [th EXCEPT ![t].pc = "es",
                                 ![t].locale = coalesce(req.larg, req.bloc, DEFAULT_LOCALE)]
             /\ UNCHANGED <<ret, dm, fnd>>
  /\ UNCHANGED <<fx, now, index, todo, branchUrl, esLock, calls, asked, faults, ghost>>

get_revision(t) ==
  /\ th[t].pc = "call"
  /\ LET req == th[t].req
         k == RevKey(req)
         c == cache.rev
     IN IF Memoized(c, k)
        THEN /\ Done(t, "value", c.memo[k].value, "memo", NoStats)
             /\ UNCHANGED cache
        ELSE /\ k \notin c.busy
             /\ IF NothingToResolve(req)
                THEN /\ cache' = [cache EXCEPT !.rev = Put(c, k, Null)]
                     /\ Done(t, "value", Null, "null", NoStats)
                ELSE /\ cache' = [cache EXCEPT !.rev = Take(c, k)]
                     /\ th' = [th EXCEPT ![t].pc = "es",
                                         ![t].locale = coalesce(req.larg, req.bloc, DEFAULT_LOCALE)]
                     /\ UNCHANGED <<ret, dm, fnd>>
  /\ UNCHANGED <<fx, now, index, todo, branchUrl, esLock, calls, asked, faults, ghost>>

(***************************************************************************)
(* _get_from_elasticsearch, lines 180-223, one search attempt a step, and *)
(* lines 145-165 of get_revision: the return of an index hit, or the      *)
(* branch of the catalog after a miss.                                     *)
(***************************************************************************)
EsOutcomes == {"ok", "NodeNotConnectedException", "EsRejectedExecutionException", "other"}

Transient(o) == o \in {"NodeNotConnectedException", "EsRejectedExecutionException"}

\* the documents the query of lines 182-192 matches
Hits(id, name, locale) ==
  {i \in DOMAIN index : /\ index[i].changeset.id12 = Id12(id)
                        /\ index[i].branch.name = name
                        /\ index[i].branch.locale = locale}

\* line 211 alone: docs[0], whatever the ids
FirstDocument(hits) == IF hits = {} THEN {Null} ELSE {index[i] : i \in hits}

\* lines 211-216: docs come in any order
BestDocs(hits) ==
  LET preferred == {i \in hits : EndsWith(i, index[i].branch.locale)}
  IN IF hits = {} THEN {Null}
     ELSE IF Cardinality(hits) = 1 \/ preferred = {} THEN {index[i] : i \in hits}
     ELSE {index[i] : i \in preferred}

\* lines 218-223 without the tests of the diff and the files
AnyDocument(best) == best.kind = "rev"

\* lines 218-223, and `if output` of line 145
Usable(best) ==
  /\ best.kind = "rev"
  /\ \/ Len(best.changeset.diff) > 0
     \/ Len(best.changeset.files) = 0

Recent(date) == date >= now - MAX_TODO_AGE

\* lines 152-165 without the second look of line 163
NoFallback(name, locale) ==
  IF <<lower(name), locale>> \in BranchKeys THEN <<lower(name), locale>> ELSE <<>>

\* lines 152-165: the branch of the catalog; the catalog is fresh, so line
\* 168 does not reload it
FindBranch(name, locale) ==
  IF <<lower(name), locale>> \in BranchKeys THEN <<lower(name), locale>>
  ELSE IF <<lower(name), DEFAULT_LOCALE>> \in BranchKeys THEN <<lower(name), DEFAULT_LOCALE>>
  ELSE <<>>

_get_from_elasticsearch(t) ==
  /\ th[t].pc = "es"
  /\ \E o \in EsOutcomes :
       LET req == th[t].req
           n == [th[t].n EXCEPT !.search = @ + 1]
           cost == IF o = "ok" \/ (Transient(o) /\ th[t].attempt > 0) THEN 0 ELSE 1
       IN /\ cost <= faults
          /\ Spend(cost)
          /\ IF Transient(o)
             THEN IF th[t].attempt + 1 < ES_ATTEMPTS
                  THEN /\ th' = [th EXCEPT ![t].attempt = @ + 1, ![t].n = n]
                       /\ UNCHANGED <<cache, todo, ret, dm, fnd>>
                  ELSE \* the loop ends with docs unbound: line 211 raises UnboundLocalError
                       /\ cache' = [cache EXCEPT !.rev = Release(@, RevKey(req))]
                       /\ Done(t, "error", Raised(<<>>), "UnboundLocalError", n)
                       /\ UNCHANGED todo
             ELSE \E best \in IF o = "ok" THEN BestDocs(Hits(req.id, req.bname, th[t].locale)) ELSE {Null} :
                    IF Usable(best)
                    THEN /\ todo' = IF Recent(best.push.date) THEN Neighbours(todo, best, "index") ELSE todo
                         /\ cache' = [cache EXCEPT !.rev = Put(@, RevKey(req), best)]
                         /\ Done(t, "value", best, "index",
                                 IF Recent(best.push.date) THEN [n EXCEPT !.enq = @ + 2] ELSE n)
                    ELSE LET b == FindBranch(req.bname, th[t].locale)
                         IN IF b = <<>>
                            THEN /\ cache' = [cache EXCEPT !.rev = Release(@, RevKey(req))]
                                 /\ Done(t, "error", Raised(<<>>), "can not find branch", n)
                                 /\ UNCHANGED todo
                            ELSE /\ th' = [th EXCEPT ![t].pc = "push", ![t].bkey = b, ![t].n = n]
                                 /\ UNCHANGED <<cache, todo, ret, dm, fnd>>
  /\ UNCHANGED <<fx, now, index, branchUrl, esLock, calls, asked, ghost>>


(***************************************************************************)
(* _get_push, lines 232-267                                                *)
(***************************************************************************)
PushKey(t) == <<th[t].bkey, th[t].req.id>>

\* query of lines 236-245
PushHits(name, id) ==
  {i \in DOMAIN index : index[i].branch.name = name /\ index[i].changeset.id12 = Id12(id)}

\* line 172, read when _get_push has returned
InfoUrl(burl, id) == rstrip(burl) \o << <<INFO, Id12(id)>> >>

\* line 251
PushUrl(burl, id) == rstrip(burl) \o << <<PUSHES, id>> >>

\* lines 228 and 265 taking the first of several answers
SomeAnswer(answers) == Cardinality(answers) >= 1

\* lines 228 and 265: `len(...) != 1` is "do not know what to do"
KnowWhatToDo(answers) == Cardinality(answers) = 1

\* enter the memoized method, then "ALWAYS TRY ES FIRST": a failed search
\* and a search without a hit both leave the try block by its except clause
_get_push(t) ==
  /\ th[t].pc = "push"
  /\ LET k == PushKey(t)
         c == cache.push
     IN IF Memoized(c, k)
        THEN /\ th' = [th EXCEPT ![t].pc = "raw", ![t].push = c.memo[k].value,
                                 ![t].url = InfoUrl(branchUrl[th[t].bkey], th[t].req.id)]
             /\ UNCHANGED <<cache, faults>>
        ELSE /\ k \notin c.busy
             /\ \E searched \in IF faults > 0 THEN BOOLEAN ELSE {TRUE} :
                  \E i \in IF searched /\ PushHits(th[t].bkey[1], th[t].req.id) # {}
                           THEN PushHits(th[t].bkey[1], th[t].req.id) ELSE {<<>>} :
                    /\ Spend(IF searched THEN 0 ELSE 1)
                    /\ IF i # <<>>
                       THEN /\ cache' = [cache EXCEPT !.push = Put(c, k, index[i].push)]
                            /\ th' = [th EXCEPT ![t].pc = "raw", ![t].push = index[i].push,
                                                ![t].url = InfoUrl(branchUrl[th[t].bkey], th[t].req.id),
                                                ![t].n.search = @ + 1]
                       ELSE /\ cache' = [cache EXCEPT !.push = Take(c, k)]
                            /\ th' = [th EXCEPT ![t].pc = "pushlog", ![t].n.search = @ + 1]
  /\ UNCHANGED <<fx, now, index, todo, branchUrl, esLock, ret, calls, asked, dm, fnd, ghost>>

\* lines 251-267
_get_push_remote(t) ==
  /\ th[t].pc = "pushlog"
  /\ \E net \in IF faults > 0 THEN Nets ELSE {AllUp},
        mode \in IF faults > 0 THEN PushModes ELSE {"one"} :
       LET b == th[t].bkey
           url == PushUrl(branchUrl[b], th[t].req.id)
           r == _get_and_retry(url, net, mode)
           n == [th[t].n EXCEPT !.fetch = @ + 1,
                                !.answered = IF r.ok THEN @ + 1 ELSE @,
                                !.pushes = IF r.ok THEN @ + Cardinality(r.data.pushes) ELSE @]
           released == [cache EXCEPT !.push = Release(@, PushKey(t)),
                                     !.rev = Release(@, RevKey(th[t].req))]
           gk == <<b, url[Len(url)]>>
           pushes == r.data.pushes
           task == Task([name |-> b[1], locale |-> b[2]],
                        UNION {p.changesets : p \in pushes}, Oldest(pushes), "pushlog")
           p == CHOOSE x \in pushes : TRUE
       IN /\ net = AllUp \/ mode = "one"
          /\ Spend(IF net = AllUp /\ mode = "one" THEN 0 ELSE 1)
          /\ ghost' = [ghost EXCEPT !.calls = Bump(@, gk),
                                     !.oks = IF r.ok THEN Bump(@, gk) ELSE @]
          /\ branchUrl' = IF r.ok THEN [branchUrl EXCEPT ![b] = r.url] ELSE branchUrl
          /\ todo' = IF r.ok THEN Append(todo, task) ELSE todo
          /\ IF ~r.ok
             THEN /\ cache' = released
                  /\ Done(t, "error", Raised(r.cause), r.error, n)
             ELSE IF ~KnowWhatToDo(pushes)
             THEN /\ cache' = released
                  /\ Done(t, "error", Raised(<<>>), "do not know what to do", [n EXCEPT !.enq = @ + 1])
             ELSE /\ cache' = [cache EXCEPT !.push = Put(@, PushKey(t), Push(p.id, p.date))]
                  /\ th' = [th EXCEPT ![t].pc = "raw", ![t].push = Push(p.id, p.date),
                                      ![t].url = InfoUrl(r.url, th[t].req.id),
                                      ![t].n = [n EXCEPT !.enq = @ + 1]]
                  /\ UNCHANGED <<ret, dm, fnd>>
  /\ UNCHANGED <<fx, now, index, esLock, calls, asked>>

(***************************************************************************)
(* _get_raw_revision, lines 225-230, with the url of line 172              *)
(***************************************************************************)
RawKey(t) == <<th[t].url, th[t].bkey>>

_get_raw_revision(t) ==
  /\ th[t].pc = "raw"
  /\ LET k == RawKey(t)
         c == cache.raw
     IN IF Memoized(c, k)
        THEN /\ th' = [th EXCEPT ![t].pc = "normalize", ![t].raw = c.memo[k].value]
             /\ UNCHANGED cache
        ELSE /\ k \notin c.busy
             /\ cache' = [cache EXCEPT !.raw = Take(c, k)]
             /\ th' = [th EXCEPT ![t].pc = "info"]
  /\ UNCHANGED <<fx, now, index, todo, branchUrl, esLock, ret, calls, asked, faults, dm, fnd, ghost>>

_get_raw_remote(t) ==
  /\ th[t].pc = "info"
  /\ \E net \in IF faults > 0 THEN Nets ELSE {AllUp} :
       LET r == _get_and_retry(th[t].url, net, "one")
           n == [th[t].n EXCEPT !.fetch = @ + 1]
           gk == <<th[t].bkey, th[t].url[Len(th[t].url)]>>
           raw == CHOOSE x \in r.data.revs : TRUE
       IN /\ Spend(IF net = AllUp THEN 0 ELSE 1)
          /\ ghost' = [ghost EXCEPT !.calls = Bump(@, gk),
                                     !.oks = IF r.ok THEN Bump(@, gk) ELSE @]
          /\ branchUrl' = IF r.ok THEN [branchUrl EXCEPT ![th[t].bkey] = r.url] ELSE branchUrl
          /\ IF ~r.ok
             THEN /\ cache' = [cache EXCEPT !.raw = Release(@, RawKey(t)),
                                            !.rev = Release(@, RevKey(th[t].req))]
                  /\ Done(t, "error", Raised(r.cause), r.error, n)
             ELSE IF ~KnowWhatToDo(r.data.revs)
             THEN /\ cache' = [cache EXCEPT !.raw = Release(@, RawKey(t)),
                                            !.rev = Release(@, RevKey(th[t].req))]
                  /\ Done(t, "error", Raised(<<>>), "do not know what to do", n)
             ELSE /\ cache' = [cache EXCEPT !.raw = Put(@, RawKey(t), raw)]
                  /\ th' = [th EXCEPT ![t].pc = "normalize", ![t].raw = raw, ![t].n = n]
                  /\ UNCHANGED <<ret, dm, fnd>>
  /\ UNCHANGED <<fx, now, index, todo, esLock, calls, asked>>

(***************************************************************************)
(* _normalize_revision, lines 269-299, and lines 176-178 of get_revision  *)
(***************************************************************************)
\* the documents the query of lines 399-407 matches that hold a diff
DiffHits(id) ==
  {i \in DOMAIN index : index[i].changeset.id12 = Id12(id) /\ Len(index[i].changeset.diff) > 0}

\* _get_json_diff_from_hg: the index first, then raw-rev, then one entry a file
_normalize_revision(t) ==
  /\ th[t].pc = "normalize"
  /\ \E searched \in BOOLEAN, fetched \in BOOLEAN :
       \E i \in IF searched /\ DiffHits(th[t].raw.node) # {} THEN DiffHits(th[t].raw.node) ELSE {<<>>} :
         LET r == th[t].raw
             fromHg == IF fetched THEN HgDiff(r.node) ELSE <<>>
             diff == IF i # <<>> THEN index[i].changeset.diff
                     ELSE IF Len(fromHg) > 0 THEN fromHg
                     ELSE FilesDiff(r.files)
             rev == Revision(r, th[t].bkey, branchUrl[th[t].bkey], th[t].push, diff, now)
             cost == (IF searched THEN 0 ELSE 1) + (IF fetched THEN 0 ELSE 1)
         IN /\ fetched \/ i = <<>>
            /\ cost <= faults
            /\ Spend(cost)
            /\ th' = [th EXCEPT ![t].pc = "eslock", ![t].rev = rev,
                                ![t].n.search = @ + 1,
                                ![t].n.fetch = IF i # <<>> THEN @ ELSE @ + 1]
  /\ UNCHANGED <<fx, now, index, cache, todo, branchUrl, esLock, ret, calls, asked, dm, fnd, ghost>>

\* a with block that does not wait for the lock
NoLock(t) ==
  /\ th[t].pc = "eslock"
  /\ esLock' = t
  /\ th' = [th EXCEPT ![t].pc = "esadd"]
  /\ UNCHANGED <<fx, now, index, cache, todo, branchUrl, ret, calls, asked, faults, dm, fnd, ghost>>

\* with self.es_locker
acquire_es_locker(t) ==
  /\ th[t].pc = "eslock"
  /\ esLock = NoValue
  /\ esLock' = t
  /\ th' = [th EXCEPT ![t].pc = "esadd"]
  /\ UNCHANGED <<fx, now, index, cache, todo, branchUrl, ret, calls, asked, faults, dm, fnd, ghost>>

\* self.es.add under the lock; then lines 176-178
es_add(t) ==
  /\ th[t].pc = "esadd"
  /\ esLock' = NoValue
  /\ \E added \in IF faults > 0 THEN BOOLEAN ELSE {TRUE} :
       LET rev == [th[t].rev EXCEPT !.branch.url = branchUrl[th[t].bkey]]
           n == [th[t].n EXCEPT !.write = @ + 1]
       IN /\ Spend(IF added THEN 0 ELSE 1)
          /\ IF added
             THEN /\ index' = Upd(index, DocId(rev), rev)
                  /\ todo' = Neighbours(todo, rev, "remote")
                  /\ cache' = [cache EXCEPT !.rev = Put(@, RevKey(th[t].req), rev)]
                  /\ Done(t, "value", rev, "remote", [n EXCEPT !.enq = @ + 2])
             ELSE /\ cache' = [cache EXCEPT !.rev = Release(@, RevKey(th[t].req))]
                  /\ Done(t, "error", Raised(<<>>), "es.add", th[t].n)
                  /\ UNCHANGED <<index, todo>>
  /\ UNCHANGED <<fx, now, branchUrl, calls, asked, ghost>>

(***************************************************************************)
(* _daemon, lines 110-128                                                  *)
(***************************************************************************)
\* lines 113-116
daemon_pop ==
  /\ th[DaemonThread].pc = "pop"
  /\ todo # <<>>
  /\ todo' = Tail(todo)
  /\ LET task == Head(todo)
     IN IF task.branch.name \in DAEMON_DO_NO_SCAN \/ task.revisions = {}
        THEN UNCHANGED <<th, dm>>
        ELSE /\ dm' = [branch |-> task.branch, revisions |-> task.revisions, tovisit |-> task.revisions]
             /\ th' = [th EXCEPT ![DaemonThread].pc = "scan"]
  /\ UNCHANGED <<fx, now, index, cache, branchUrl, esLock, ret, calls, asked, faults, fnd, ghost>>

\* lines 119-121: the next r of list(revisions)
daemon_scan ==
  /\ th[DaemonThread].pc = "scan"
  /\ \E r \in dm.tovisit :
       th' = [th EXCEPT ![DaemonThread] =
                [Frame0 EXCEPT !.pc = "call", !.req = Request(dm.branch.name, dm.branch.locale, r, NoValue)]]
  /\ UNCHANGED <<fx, now, index, cache, todo, branchUrl, esLock, ret, calls, asked, faults, dm, fnd, ghost>>

(***************************************************************************)
(* _find_revision, lines 346-377                                           *)
(***************************************************************************)
\* self.branches in the order the catalog iterates
CatalogOrder ==
  <<MC, <<"try", "en-US">>, <<"mozilla-inbound", "en-US">>, <<"autoland", "en-US">>,
    <<"mozilla-central", "de">>>>

\* line 352 without its filter: every branch of the catalog
EveryBranch == CatalogOrder

\* line 352: the landing branches of the catalog
Landing ==
  LET keep(b) == b[2] = DEFAULT_LOCALE /\ b[1] \in LANDING_BRANCHES
      F[i \in 0..Len(CatalogOrder)] ==
        IF i = 0 THEN <<>>
        ELSE IF keep(CatalogOrder[i]) THEN Append(F[i - 1], CatalogOrder[i]) ELSE F[i - 1]
  IN F[Len(CatalogOrder)]

\* lines 347-371: enter the memoized method, load the queue, start the workers
_find_revision ==
  /\ th[Finder].pc = "idle"
  /\ calls[Finder] > 0
  /\ calls' = [calls EXCEPT ![Finder] = @ - 1]
  /\ LET c == cache.find
     IN IF Memoized(c, asked.id)
        THEN /\ fnd' = [fnd EXCEPT !.id = asked.id, !.result = c.memo[asked.id].value, !.done = TRUE]
             /\ UNCHANGED <<cache, th>>
        ELSE /\ asked.id \notin c.busy
             /\ cache' = [cache EXCEPT !.find = Take(c, asked.id)]
             /\ fnd' = [id |-> asked.id, queue |-> Landing, taken |-> <<>>, output |-> <<>>,
                        problems |-> 0,
                        result |-> <<>>, done |-> FALSE]
             /\ th' = [t \in Threads |->
                        IF t = Finder THEN [Frame0 EXCEPT !.pc = "join"]
                        ELSE IF t \in Workers THEN [Frame0 EXCEPT !.pc = "wnext"]
                        ELSE th[t]]
  /\ UNCHANGED <<fx, now, index, todo, branchUrl, esLock, ret, asked, faults, dm, ghost>>

\* the workers are alike: of those waiting on the queue the first is served
First(w) == \A v \in Workers : th[v].pc = "wnext" => WorkerNo(w) <= WorkerNo(v)

\* lines 357-362: `for b in queue` of one worker; THREAD_STOP ends it
_find(w) ==
  /\ w \in Workers
  /\ th[w].pc = "wnext"
  /\ First(w)
  /\ IF fnd.queue = <<>>
     THEN /\ th' = [th EXCEPT ![w].pc = "wdone"]
          /\ UNCHANGED fnd
     ELSE /\ fnd' = [fnd EXCEPT !.queue = Tail(@), !.taken = Bump(@, Head(fnd.queue))]
          /\ th' = [th EXCEPT ![w] =
                      [Frame0 EXCEPT !.pc = "call",
                                     !.req = Request(Head(fnd.queue)[1], Head(fnd.queue)[2], fnd.id, NoValue)]]
  /\ UNCHANGED <<fx, now, index, cache, todo, branchUrl, esLock, ret, calls, asked, faults, dm, ghost>>

\* lines 373-377: join the workers, return output
_find_revision_return ==
  /\ th[Finder].pc = "join"
  /\ \A w \in Workers : th[w].pc = "wdone"
  /\ th' = [t \in Threads |-> IF t \in Workers \cup {Finder} THEN Frame0 ELSE th[t]]
  /\ fnd' = [fnd EXCEPT !.result = fnd.output, !.done = TRUE]
  /\ cache' = [cache EXCEPT !.find = Put(@, fnd.id, fnd.output)]
  /\ UNCHANGED <<fx, now, index, todo, branchUrl, esLock, ret, calls, asked, faults, dm, ghost>>

Resolve(t) ==
  \/ get_revision(t)
  \/ _get_from_elasticsearch(t)
  \/ _get_push(t)
  \/ _get_push_remote(t)
  \/ _get_raw_revision(t)
  \/ _get_raw_remote(t)
  \/ _normalize_revision(t)
  \/ acquire_es_locker(t)
  \/ es_add(t)

Next ==
  \/ \E t \in Callers : CallGetRevision(t)
  \/ \E t \in Threads : Resolve(t)
  \/ daemon_pop
  \/ daemon_scan

Spec == Init /\ [][Next]_vars

(***************************************************************************)
(* A run in which the process is asked for one cross-branch search        *)
(***************************************************************************)
TRY == <<"try", "en-US">>

InitFind ==
  /\ InitCommon
  /\ index = (DocId(StoredDoc("t1-full", TRY, TRUE)) :> StoredDoc("t1-full", TRY, TRUE))
  /\ ghost = [calls |-> <<>>, oks |-> <<>>, index0 |-> index]
  /\ calls = [t \in Threads |-> IF t = Finder THEN 1 ELSE 0]
  /\ asked \in {Request(NoValue, NoValue, id, NoValue) : id \in FindIds}
  /\ faults = MaxFaults
  /\ fx = NoFetch

NextFind ==
  \/ _find_revision
  \/ \E w \in Workers : _find(w)
  \/ _find_revision_return
  \/ \E t \in Threads : Resolve(t)
  \/ daemon_pop
  \/ daemon_scan

SpecFind == InitFind /\ [][NextFind]_vars

(***************************************************************************)
(* Threads are scheduled fairly: a thread that can take a step takes it.  *)
(***************************************************************************)
Step(t) ==
  \/ CallGetRevision(t)
  \/ Resolve(t)
  \/ (t = DaemonThread /\ (daemon_pop \/ daemon_scan))

FairSpec == Init /\ [][Next]_vars /\ \A t \in Callers \cup {DaemonThread} : WF_vars(Step(t))

(***************************************************************************)
(* A run in which one caller gives a locale, or a branch name in capitals *)
(***************************************************************************)
InitLocale ==
  /\ InitCommon
  /\ index = <<>>
  /\ ghost = [calls |-> <<>>, oks |-> <<>>, index0 |-> index]
  /\ calls = [t \in Threads |-> IF t = "c1" THEN 1 ELSE 0]
  /\ asked \in LocaleRequests
  /\ faults = MaxFaults
  /\ fx = NoFetch

SpecLocale == InitLocale /\ [][Next]_vars

(***************************************************************************)
(* A run in which the index holds two documents of one revision: one an   *)
(* earlier version of the process wrote under an id without locale, one   *)
(* under the id of line 295                                                *)
(***************************************************************************)
OldDocId(rev) == <<rev.changeset.id12, rev.branch.name>>

TwoDocuments(node, oldDiff, newDiff) ==
  LET old == [StoredDoc(node, MC, oldDiff) EXCEPT !.etl.timestamp = Now0 - 2 * DAY]
      new == StoredDoc(node, MC, newDiff)
  IN (OldDocId(old) :> old) @@ (DocId(new) :> new)

InitDocs ==
  /\ InitCommon
  /\ \E node \in RepoNodes(<<"mozilla-central">>), oldDiff, newDiff \in BOOLEAN :
       /\ index = TwoDocuments(node, oldDiff, newDiff)
       /\ asked = Request("mozilla-central", NoValue, Id12(node), NoValue)
  /\ ghost = [calls |-> <<>>, oks |-> <<>>, index0 |-> index]
  /\ calls = [t \in Threads |-> IF t = "c1" THEN 1 ELSE 0]
  /\ faults = MaxFaults
  /\ fx = NoFetch

SpecDocs == InitDocs /\ [][Next]_vars

(***************************************************************************)
(* A run in which one caller asks for a revision of try, whose push log   *)
(* puts a task of the branch try on the todo queue (line 260), or for a   *)
(* revision of mozilla-central                                             *)
(***************************************************************************)
TryRequests ==
  { Request("try", NoValue, "t1", NoValue),
    Request("mozilla-central", NoValue, "r2", NoValue) }

InitTry ==
  /\ InitCommon
  /\ index = <<>>
  /\ ghost = [calls |-> <<>>, oks |-> <<>>, index0 |-> index]
  /\ calls = [t \in Threads |-> IF t = "c1" THEN 1 ELSE 0]
  /\ asked \in TryRequests
  /\ faults = MaxFaults
  /\ fx = NoFetch

SpecTry == InitTry /\ [][Next]_vars

(***************************************************************************)
(* A run in which get_revision is called twice, one call after the other, *)
(* with the same arguments; the memo of the first call may have expired.  *)
(***************************************************************************)
InitTwice ==
  /\ InitCommon
  /\ index = <<>>
  /\ ghost = [calls |-> <<>>, oks |-> <<>>, index0 |-> index]
  /\ calls = [t \in Threads |-> IF t \in Callers THEN 1 ELSE 0]
  /\ asked \in TwiceRequests
  /\ faults = MaxFaults
  /\ fx = NoFetch

\* the second call is made when the first has come back, at once or an hour
\* later (Date.now() of lines 147 and 290, and the clock of @cache)
CallAgain(t) ==
  /\ t = "c2"
  /\ th[t].pc = "idle"
  /\ calls[t] > 0
  /\ ret["c1"].kind # "none"
  /\ th' = [th EXCEPT ![t] = [Frame0 EXCEPT !.pc = "call", !.req = asked]]
  /\ calls' = [calls EXCEPT ![t] = @ - 1]
  /\ now' \in {now, now + HOUR}
  /\ UNCHANGED <<fx, index, cache, todo, branchUrl, esLock, ret, asked, faults, dm, fnd, ghost>>

NextTwice ==
  \/ CallGetRevision("c1")
  \/ CallAgain("c2")
  \/ \E t \in Threads : Resolve(t)
  \/ daemon_pop
  \/ daemon_scan

SpecTwice == InitTwice /\ [][NextTwice]_vars

(***************************************************************************)
(* A run in which _get_and_retry is called on its own, for the url of a   *)
(* Branch object and an endpoint, under one state of the network and of   *)
(* the push-log; a second fetch is then built from the branch's url.      *)
(***************************************************************************)
\* urls a Branch object holds: the catalog's, the localized mounts, the old
\* autoland mount and a url recorded after a downgraded success
FetchBranchUrls ==
  { HgUrl(<<"mozilla-central", "">>), HgUrl(<<"try">>),
    HgUrl(<<"integration", "mozilla-inbound">>), HgUrl(<<"integration", "autoland">>),
    HgUrl(<<"build", "autoland">>), HgUrl(<<"l10n-central", "tr">>),
    HgUrl(<<"l10n-central", "autoland">>),
    HgUrl(<<"releases", "l10n", "mozilla-aurora", "pt-PT">>),
    HgUrl(<<"releases", "l10n", "mozilla-beta", "lt">>),
    HgUrl(<<"releases", "l10n", "mozilla-release", "en-GB">>),
    Downgrade(HgUrl(<<"mozilla-central">>)) }

FetchIds == {"r1", "t1", "zz"}

Endpoints(id) == { <<PUSHES, id>>, <<INFO, id>> }

NoResponse == [ok |-> FALSE, error |-> "not called", cause |-> <<>>, data |-> [kind |-> "none"],
               url |-> <<>>, tried |-> <<>>]

\* branch.url.rstrip("/") + "/json-pushes?full=1&changeset=" + changeset_id, and
\* the same for json-info
EndpointUrl(burl, ep) == rstrip(burl) \o <<ep>>

InitRetry ==
  /\ InitCommon
  /\ index = <<>>
  /\ ghost = [calls |-> <<>>, oks |-> <<>>, index0 |-> index]
  /\ calls = [t \in Threads |-> 0]
  /\ asked = Request(NoValue, NoValue, NoValue, NoValue)
  /\ faults = MaxFaults
  /\ \E b \in FetchBranchUrls, id \in FetchIds, net \in Nets, mode \in PushModes :
       \E ep \in Endpoints(id) :
         fx = [pc |-> "call", burl0 |-> b, burl |-> b, url |-> EndpointUrl(b, ep),
               net |-> net, mode |-> mode, r |-> NoResponse, again |-> NoResponse]

\* self._get_and_retry(url, branch); _get_url records a success in branch.url
fetch ==
  /\ fx.pc = "call"
  /\ LET r == _get_and_retry(fx.url, fx.net, fx.mode)
     IN fx' = [fx EXCEPT !.pc = "fetched", !.r = r, !.burl = IF r.ok THEN r.url ELSE @]
  /\ UNCHANGED <<now, index, cache, todo, branchUrl, esLock, th, ret, calls, asked, faults, dm,
                 fnd, ghost>>

\* the next fetch for the same changeset, built from the url of the branch
refetch ==
  /\ fx.pc = "fetched"
  /\ \E ep \in Endpoints(fx.url[Len(fx.url)][2]) :
       LET r == _get_and_retry(EndpointUrl(fx.burl, ep), fx.net, fx.mode)
       IN fx' = [fx EXCEPT !.pc = "again", !.again = r, !.burl = IF r.ok THEN r.url ELSE @]
  /\ UNCHANGED <<now, index, cache, todo, branchUrl, esLock, th, ret, calls, asked, faults, dm,
                 fnd, ghost>>

NextRetry ==
  \/ fetch
  \/ refetch

SpecRetry == InitRetry /\ [][NextRetry]_vars

(***************************************************************************)
(* A run in which minimize_repo is applied to one revision                *)
(***************************************************************************)
\* mo_logs.strings.limit(value, length) on the number of characters of value
limit(chars, length) == Min(chars, length)

DESCRIPTION_LIMIT == 1000

\* numbers of characters of a changeset description
DescriptionLengths == {0, 80, 1000, 1001, 2000}

\* a revision with the fields minimize_repo reads or clears
FullRevision(node, bkey, chars, withDiff) ==
  [kind |-> "rev",
   branch |-> [name |-> bkey[1], locale |-> bkey[2], url |-> rstrip(CatalogUrl(bkey)),
               last_used |-> Now0, description |-> "about the branch",
               etl |-> [timestamp |-> Now0 - DAY]],
   index |-> HgInfo(node).rev,
   changeset |-> [id |-> node, id12 |-> Id12(node), author |-> "someone@mozilla.com",
                  date |-> HgInfo(node).push.date, description |-> chars,
                  files |-> HgInfo(node).files,
                  diff |-> IF withDiff THEN HgDiff(node) ELSE <<>>],
   parents |-> unwraplist(HgInfo(node).parents),
   children |-> unwraplist(HgInfo(node).children),
   push |-> Push(HgInfo(node).push.id, HgInfo(node).push.date),
   etl |-> [timestamp |-> Now0]]

minimize_repo(repo) ==
  [repo EXCEPT !.changeset.files = Null,
               !.changeset.diff = Null,
               !.changeset.description = limit(@, DESCRIPTION_LIMIT),
               !.etl = Null,
               !.branch.last_used = Null,
               !.branch.description = Null,
               !.branch.etl = Null,
               !.children = unwraplist(<<>>),
               !.parents = unwraplist(<<>>)]

InitMinimize ==
  /\ InitCommon
  /\ index = <<>>
  /\ ghost = [calls |-> <<>>, oks |-> <<>>, index0 |-> index]
  /\ calls = [t \in Threads |-> 0]
  /\ asked = Request(NoValue, NoValue, NoValue, NoValue)
  /\ faults = MaxFaults
  /\ \E node \in HgNodes, bkey \in BranchKeys, chars \in DescriptionLengths,
        withDiff \in BOOLEAN :
       fx = [pc |-> "repo", repo0 |-> FullRevision(node, bkey, chars, withDiff),
             repo |-> FullRevision(node, bkey, chars, withDiff)]

\* minimize_repo(repo) changes the object it is given
minimize ==
  /\ fx.pc = "repo"
  /\ fx' = [fx EXCEPT !.pc = "minimized", !.repo = minimize_repo(@)]
  /\ UNCHANGED <<now, index, cache, todo, branchUrl, esLock, th, ret, calls, asked, faults, dm,
                 fnd, ghost>>

NextMinimize == minimize

SpecMinimize == InitMinimize /\ [][NextMinimize]_vars

(***************************************************************************)
(* Vocabulary of the properties                                            *)
(***************************************************************************)
\* t is inside the body of get_revision
Inside(t) ==
  th[t].pc \in {"es", "push", "pushlog", "raw", "info", "normalize", "eslock", "esadd"}

Returned(c) == ret[c].kind # "none"

\* the hosting service has the changeset the request names
Resolvable(req) ==
  /\ ~NothingToResolve(req)
  /\ req.bname = "mozilla-central"
  /\ \E n \in RepoNodes(<<"mozilla-central">>) : n = req.id \/ Prefix12[n] = req.id

\* the index the process started with holds a document of the request
InIndex0(req) ==
  \E i \in DOMAIN ghost.index0 :
    ghost.index0[i].changeset.id12 = Id12(req.id) /\ ghost.index0[i].branch.name = req.bname

\* fetches of the info and push-log URLs of the request
InfoKey(req) == <<MC, <<INFO, Id12(req.id)>>>>
PushLogKey(req) == <<MC, <<PUSHES, req.id>>>>

C2_NoOldTask ==
  \A i \in 1..Len(todo) : todo[i].date >= todo[i].at - MAX_TODO_AGE

(***************************************************************************)
(* C3                                                                      *)
(***************************************************************************)
\* C3: once the external calls have returned and no further call is made,
\* the todo queue eventually becomes empty, the threads being scheduled
\* fairly.
C3_Drains ==
  ((\E c \in Callers : Returned(c)) /\ (\A c \in Callers : th[c].pc = "idle"))
    ~> (todo = <<>>)

(***************************************************************************)
(* C4                                                                      *)
(***************************************************************************)
\* C4: a failure of get_revision while the daemon processes a task never
\* halts the daemon loop: the daemon thread is never ended by it.
C4_DaemonNeverHalts == th[DaemonThread].pc # "dead"

(***************************************************************************)
(* C5                                                                      *)
(***************************************************************************)
\* the index holds one document of the request of t, with files and
\* without a diff
SingleWithoutDiff(t) ==
  LET hits == Hits(th[t].req.id, th[t].req.bname, th[t].locale)
  IN /\ Cardinality(hits) = 1
     /\ \A i \in hits : Len(index[i].changeset.diff) = 0 /\ Len(index[i].changeset.files) > 0

\* C5: a revision get_revision returns from the index is a document of the
\* request that has a diff or has no files; the call has made no fetch and
\* no index write, and has enqueued the parents and the children (two
\* tasks) if and only if the push date is within MAX_TODO_AGE of now.  A
\* single matching document with files and without a diff is not returned:
\* when the search has answered, get_revision goes on to the branch lookup
\* of a miss.
C5_IndexHit ==
  /\ [](\A c \in Callers :
          ret[c].via = "index" =>
            /\ ret[c].kind = "value"
            /\ ret[c].value.changeset.id12 = Id12(ret[c].req.id)
            /\ ret[c].value.branch.name = ret[c].req.bname
            /\ \/ Len(ret[c].value.changeset.diff) > 0
               \/ Len(ret[c].value.changeset.files) = 0
            /\ ret[c].n.fetch = 0 /\ ret[c].n.write = 0 /\ ret[c].n.answered = 0
            /\ ret[c].n.enq = IF ret[c].value.push.date >= now - MAX_TODO_AGE THEN 2 ELSE 0)
  /\ [][\A c \in Callers :
          (th[c].pc = "es" /\ SingleWithoutDiff(c) /\ th'[c] # th[c])
          => /\ ret'[c].via # "index"
             /\ th'[c].pc \in {"es", "push", "idle"}
             /\ th'[c].pc = "idle" => ret'[c].kind = "error"
             /\ index' = index /\ todo' = todo /\ ghost' = ghost]_vars

\* a caller has received a recent revision from the index and its
\* neighbours are in the todo queue
C5_Witness ==
  \E c \in Callers :
    /\ ret[c].via = "index"
    /\ ret[c].value.push.date >= now - MAX_TODO_AGE
    /\ ret[c].n.enq = 2
    /\ ret[c].n.fetch = 0
    /\ \E i \in 1..Len(todo) : todo[i].site = "index"

(***************************************************************************)
(* C6                                                                      *)
(***************************************************************************)
\* C6: when the changeset id asked for is empty or "None", or the branch
\* has no name, every call returns the null revision and nothing else
\* happens: no index search, no fetch, no index write, no task in todo.
C6_NullRevision ==
  (asked.id = "" \/ asked.id = "None" \/ asked.bname = NoValue)
  => /\ \A c \in Callers :
          Returned(c) => ret[c].kind = "value" /\ ret[c].value = Null /\ ret[c].n = NoStats
     /\ \A t \in Threads : ~Inside(t)
     /\ todo = <<>>
     /\ index = ghost.index0
     /\ ghost.calls = <<>>

\* a caller that asked for the changeset "None" has the null revision
C6_Witness ==
  \E c \in Callers :
    /\ ret[c].req.id = "None"
    /\ ret[c].kind = "value"
    /\ ret[c].value = Null
    /\ ret[c].via = "null"

(***************************************************************************)
(* C7                                                                      *)
(***************************************************************************)
\* C7: when the hosting service answers the push-log or the info request
\* with "unknown revision", get_revision does not raise: no caller receives
\* an error chained to the "Unknown push" error of _get_url.
C7_UnknownRevisionDoesNotRaise ==
  \A c \in Callers :
    ~(ret[c].kind = "error" /\ "Unknown push" \in SeqToSet(ret[c].value.cause))

(***************************************************************************)
(* C9                                                                      *)
(***************************************************************************)
\* the positions of get_revision after _get_push has returned a push
AfterPush == {"raw", "info", "normalize", "eslock", "esadd"}

\* C9: a call that has fetched the push-log goes on with a Push only when
\* the response held exactly one push; when it held none or several the
\* call ends with the error "do not know what to do", without a Push and
\* without another fetch.
C9_ExactlyOnePush ==
  /\ \A t \in Threads :
       (th[t].pc \in AfterPush /\ th[t].n.answered > 0)
       => th[t].n.pushes = 1 /\ th[t].push.kind = "push"
  /\ \A c \in Callers :
       /\ (ret[c].n.answered > 0 /\ ret[c].n.pushes # 1)
          => /\ ret[c].kind = "error"
             /\ ret[c].via = "do not know what to do"
             /\ ret[c].n.fetch = 1
       /\ (ret[c].n.answered > 0 /\ ret[c].kind = "value")
          => ret[c].n.pushes = 1 /\ ret[c].value.push.kind = "push"

\* a caller whose push-log fetch was answered with two pushes has the error
C9_Witness ==
  \E c \in Callers :
    /\ ret[c].n.answered = 1
    /\ ret[c].n.pushes = 2
    /\ ret[c].kind = "error"
    /\ ret[c].via = "do not know what to do"

(***************************************************************************)
(* C10                                                                     *)
(***************************************************************************)
\* C10: when every attempt of the index search fails with a lost node or a
\* rejected execution, the lookup is a miss and no error reaches the caller.
C10_SearchFailureIsMiss ==
  \A c \in Callers : ~(ret[c].kind = "error" /\ ret[c].via = "UnboundLocalError")

(***************************************************************************)
(* C8                                                                      *)
(***************************************************************************)
\* the repositories of try, mozilla-inbound and autoland hold no changeset
\* the id names
InNoLandingBranch(id) ==
  \A repo \in {<<"try">>, <<"integration", "mozilla-inbound">>, <<"integration", "autoland">>} :
    \A n \in RepoNodes(repo) : n # id /\ Prefix12[n] # id

\* C8: _find_revision of an id that is in none of the landing branches
\* appends nothing to its output, and returns the empty list once its
\* workers have ended, each of the three resolutions having failed and been
\* put aside in `problems`.
C8_FindsNothing ==
  (fnd.id # NoValue /\ InNoLandingBranch(fnd.id))
  => /\ fnd.output = <<>>
     /\ fnd.done => (fnd.result = <<>> /\ fnd.problems = 3)

\* _find_revision has returned for a changeset of mozilla-central only
C8_Witness ==
  /\ fnd.done
  /\ fnd.id = "r1-full"
  /\ fnd.result = <<>>
  /\ fnd.problems = 3


\* the workers of _find_revision inside a call of get_revision
Calling == {w \in Workers : th[w].pc \notin {"idle", "wnext", "wdone"}}

\* C18: _find_revision returns only when its three workers have ended and
\* the queue of branches is empty; every landing branch put on the queue is
\* taken by one worker, once, whatever the interleaving; every call of a
\* worker ends as one entry of the output or as one problem, none is lost,
\* and the list returned has one entry for each branch resolved with success
C18_JoinsAndCollects ==
  /\ [](LET landing == {b \in BranchKeys : b[2] = DEFAULT_LOCALE /\ b[1] \in LANDING_BRANCHES}
        IN /\ \A b \in DOMAIN fnd.taken : fnd.taken[b] = 1 /\ b \in landing
           /\ Len(fnd.output) + fnd.problems + Cardinality(Calling)
                = Cardinality(DOMAIN fnd.taken)
           /\ \A i, j \in 1..Len(fnd.output) :
                i # j => fnd.output[i].branch.name # fnd.output[j].branch.name
           /\ fnd.done => /\ DOMAIN fnd.taken = landing
                          /\ fnd.result = fnd.output
                          /\ Len(fnd.result) + fnd.problems = Cardinality(landing))
  /\ [][(fnd'.done /\ ~fnd.done) =>
          /\ \A w \in Workers : th[w].pc = "wdone"
          /\ fnd.queue = <<>>
          /\ Calling = {}]_vars

\* _find_revision has returned two entries, from try and from autoland, and
\* one problem
C18_Witness ==
  /\ fnd.done
  /\ Len(fnd.result) = 2
  /\ fnd.problems = 1


(***************************************************************************)
(* _get_and_retry on its own (SpecRetry)                                   *)
(***************************************************************************)
\* the outcome of one request of the call of this run
Try(u) == _get_url(u, fx.net, fx.mode)

C17_UnknownRevisionStops ==
  fx.pc # "call" =>
    \A i \in 1..Len(fx.r.tried) :
      (\A j \in 1..(i - 1) : ~Try(fx.r.tried[j]).ok)
      /\ fx.r.tried[i][1][1] \in fx.net
      /\ Serve(fx.r.tried[i], fx.mode).kind = "unknown revision"
      => i = Len(fx.r.tried) /\ fx.r.error = "Unknown push"

C20_BranchUrl ==
  /\ fx.pc = "fetched" =>
       IF fx.r.ok
       THEN LET u == fx.r.tried[Len(fx.r.tried)]
            IN fx.burl = SubSeq(u, 1, Len(u) - 1)
       ELSE fx.burl = fx.burl0
  /\ fx.pc = "again" /\ fx.r.ok => fx.again.ok /\ Len(fx.again.tried) = 1

\* the next fetch after a fetch that succeeded downgraded and rewritten
C20_Witness ==
  /\ fx.pc = "again"
  /\ fx.r.ok
  /\ Len(fx.r.tried) = 4
  /\ fx.burl # fx.burl0
  /\ fx.again.ok


(***************************************************************************)
(* minimize_repo on its own (SpecMinimize)                                 *)
(***************************************************************************)
\* C15: minimize_repo removes changeset.diff and changeset.files, shortens
\* changeset.description to at most 1000 characters, clears etl,
\* branch.last_used, branch.description and branch.etl, and leaves index,
\* push, parents, children, changeset id, id12, author and date, and branch
\* name, locale and url as they were
C15_MinimizeFrame ==
  fx.pc = "minimized" =>
    LET a == fx.repo0
        b == fx.repo
    IN /\ b.changeset.diff = Null /\ b.changeset.files = Null
       /\ b.changeset.description <= 1000
       /\ b.etl = Null /\ b.branch.last_used = Null
       /\ b.branch.description = Null /\ b.branch.etl = Null
       /\ b.index = a.index /\ b.push = a.push
       /\ b.parents = a.parents /\ b.children = a.children
       /\ b.changeset.id = a.changeset.id /\ b.changeset.id12 = a.changeset.id12
       /\ b.changeset.author = a.changeset.author /\ b.changeset.date = a.changeset.date
       /\ b.branch.name = a.branch.name /\ b.branch.locale = a.branch.locale
       /\ b.branch.url = a.branch.url


(***************************************************************************)
(* Two calls one after the other (SpecTwice)                               *)
(***************************************************************************)
\* C13: two successive calls of get_revision with the same branch, locale
\* and changeset id, the hosting service unchanged, return revisions equal
\* field for field, whether the second is served by the memo, by the index
\* document of the first, or by resolving again
C13_SameRevisionTwice ==
  (ret["c1"].kind = "value" /\ ret["c2"].kind = "value") =>
    ret["c2"].value = ret["c1"].value


(***************************************************************************)
(* Calls with a locale (SpecLocale)                                        *)
(***************************************************************************)
\* the locale resolved for a request: the argument, else the locale of the
\* branch given, else the default (line 143)
ResolvedLocale(req) == coalesce(req.larg, req.bloc, DEFAULT_LOCALE)

\* C14: after get_revision has resolved a request through the remote path,
\* the index holds the normalized revision under the key
\* id12-branch.name-locale, locale being the locale resolved for the
\* request, and the index lookup of get_revision for that id12, branch name
\* and locale finds the document
C14_IndexKey ==
  \A c \in Callers :
    (ret[c].kind = "value" /\ ret[c].via = "remote") =>
      LET rev == ret[c].value
          loc == ResolvedLocale(ret[c].req)
          key == <<rev.changeset.id12, rev.branch.name, loc>>
      IN /\ key \in DOMAIN index
         /\ index[key].changeset.id = rev.changeset.id
         /\ \E i \in DOMAIN index : /\ index[i].changeset.id12 = rev.changeset.id12
                                    /\ index[i].branch.name = rev.branch.name
                                    /\ index[i].branch.locale = loc

\* C16: after an index miss get_revision takes the branch the catalog has
\* for (lower-cased name, resolved locale), else the one for (lower-cased
\* name, default locale); with neither it raises "can not find branch",
\* and then nothing was fetched, written to the index or added to todo
C16_BranchLookup ==
  \A t \in Callers \cup {DaemonThread} :
    LET Expected(req) ==
          IF <<lower(req.bname), ResolvedLocale(req)>> \in BranchKeys
          THEN <<lower(req.bname), ResolvedLocale(req)>>
          ELSE <<lower(req.bname), DEFAULT_LOCALE>>
    IN /\ Inside(t) /\ th[t].pc # "es" =>
            /\ Expected(th[t].req) \in BranchKeys
            /\ th[t].bkey = Expected(th[t].req)
       /\ t \in Callers /\ ret[t].kind # "none" /\ ret[t].via = "can not find branch" =>
            /\ ret[t].kind = "error"
            /\ Expected(ret[t].req) \notin BranchKeys
            /\ ret[t].n.fetch = 0 /\ ret[t].n.write = 0 /\ ret[t].n.enq = 0
            /\ index = ghost.index0 /\ todo = <<>> /\ ghost.calls = <<>>

\* a call for a branch the catalog does not have has raised, after its
\* search of the index
C16_Witness ==
  /\ ret["c1"].kind = "error"
  /\ ret["c1"].via = "can not find branch"
  /\ ret["c1"].n.search >= 1
  /\ ret["c1"].req.bname = "no-such-branch"


(***************************************************************************)
(* Several documents of one revision (SpecDocs)                            *)
(***************************************************************************)
\* C21: when the index returns more than one document for the id12, the
\* branch name and the locale of the request, _get_from_elasticsearch
\* chooses the document whose id ends with the locale, and the test of the
\* diff and the files is made on that document: it is returned if it has a
\* diff or no files, and no other document is returned in its place
C21_PreferredDocument ==
  [][\A c \in Callers :
       LET loc == coalesce(th[c].req.larg, th[c].req.bloc, DEFAULT_LOCALE)
           docs == {i \in DOMAIN index : /\ index[i].changeset.id12 = Id12(th[c].req.id)
                                         /\ index[i].branch.name = th[c].req.bname
                                         /\ index[i].branch.locale = loc}
           ends == {i \in docs : Len(i) = 3 /\ i[3] = loc}
       IN (th[c].pc = "es" /\ ret'[c].via = "index" /\ Cardinality(docs) > 1 /\ ends # {})
          => /\ ret'[c].value \in {index[i] : i \in ends}
             /\ \/ Len(ret'[c].value.changeset.diff) > 0
                \/ Len(ret'[c].value.changeset.files) = 0]_vars

\* the index held two documents of the request and the call returned the one
\* stored under the id with the locale
C21_Witness ==
  /\ ret["c1"].via = "index"
  /\ Cardinality(DOMAIN ghost.index0) = 2
  /\ ret["c1"].value = ghost.index0[<<ret["c1"].value.changeset.id12, "mozilla-central", "en-US">>]
  /\ ret["c1"].value.etl.timestamp = Now0 - DAY


(***************************************************************************)
(* The daemon and its tasks                                                *)
(***************************************************************************)
\* C22: for a task it popped the daemon calls get_revision on the branch of
\* the task for every id of the task; an id that was resolved is dropped
\* from the set of the task, an id that was not resolved stays in it for
\* _find_revision, and the daemon goes on with the task
C22_UnresolvedHandedOn ==
  [][LET d == DaemonThread
         calling == {"call", "es", "push", "pushlog", "raw", "info", "normalize", "eslock",
                     "esadd"}
         id == th[d].req.id
     IN (th[d].pc \in calling /\ th'[d].pc \notin calling)
        => /\ th[d].req.bname = dm.branch.name
           /\ id \in dm.revisions
           /\ th'[d].pc \in {"scan", "find", "pop"}
           /\ \/ dm'.revisions = dm.revisions \ {id}
              \/ dm'.revisions = dm.revisions /\ th'[d].pc \in {"scan", "find"}]_vars

\* C23: at most one thread is inside es.add at any time and it is the holder
\* of es_locker; the index changes only in a step of the holder, and the step
\* that ends es.add, with the document added or with an error, frees the lock
C23_SerializedWrites ==
  /\ [](LET writers == {t \in Threads : th[t].pc = "esadd"}
        IN /\ Cardinality(writers) <= 1
           /\ \A t \in Threads : (th[t].pc = "esadd") <=> (esLock = t)
           /\ esLock \in Threads \cup {NoValue})
  /\ [][/\ (index' # index) => (esLock \in Threads /\ th[esLock].pc = "esadd")
        /\ \A t \in Threads :
             (th[t].pc = "esadd" /\ th'[t].pc # "esadd")
               => /\ esLock = t
                  /\ esLock' = NoValue
                  /\ t \in Callers => ret'[t].via \in {"remote", "es.add"}]_vars

\* one thread is writing and another one waits for the lock
C23_Witness ==
  \E t, u \in Threads :
    /\ t # u
    /\ th[t].pc = "esadd"
    /\ esLock = t
    /\ th[u].pc = "eslock"

\* C24: the step in which the daemon pops a task of the branch try changes
\* nothing but the todo queue: the daemon makes no call of get_revision and
\* waits for the next task, nothing is searched, fetched, written, enqueued
\* or handed to _find_revision; the daemon never works on a task of try
C24_NoScanDiscarded ==
  /\ [](dm.branch.name # "try" /\ (th[DaemonThread].pc \notin {"pop", "dead"} => th[DaemonThread].req.bname # "try"))
  /\ [][(todo # <<>> /\ todo' = Tail(todo) /\ Head(todo).branch.name = "try")
          => /\ th[DaemonThread].pc = "pop"
             /\ th'[DaemonThread].pc = "pop"
             /\ UNCHANGED <<fx, now, index, cache, branchUrl, esLock, th, ret, calls, asked,
                            faults, dm, fnd, ghost>>]_vars

\* the caller resolved a revision of try from hg.mozilla.org, the push log put
\* the changesets of the push on the todo queue as a task of try, the daemon
\* popped every task and waits for the next one, having scanned nothing
C24_Witness ==
  /\ asked.bname = "try"
  /\ ret["c1"].kind = "value"
  /\ ret["c1"].via = "remote"
  /\ ret["c1"].n.enq = 3
  /\ todo = <<>>
  /\ th[DaemonThread].pc = "pop"
  /\ dm.revisions = {} /\ dm.branch.name = NoValue
  /\ Cardinality(DOMAIN index) = 1

====
